---- MODULE Spec2Model ----
(***************************************************************************)
(* Model of the sales-agent core: the OAuth credential lifecycle           *)
(* (src/utils/supabase_client.py, src/utils/auth.py), the workflow         *)
(* dispatcher and the session manager (src/sales_automation/agent.py) and  *)
(* the lead scorer (src/utils/helpers.py).                                 *)
(*                                                                         *)
(* Atomicity follows the asyncio scheduling of the source: the supabase    *)
(* client calls are synchronous, so a coroutine can only be suspended at   *)
(* the httpx awaits (client.post, the exit of `async with`), at the awaits *)
(* of the agent runner and at the awaits of the session service.  Each     *)
(* action is the code between two such suspension points.                  *)
(***************************************************************************)
EXTENDS Integers, Sequences, FiniteSets, TLC

(***************************************************************************)
(* Bounds                                                                  *)
(***************************************************************************)
MaxTime == 2        \* the clock runs 0..MaxTime
MaxRows == 2        \* rows ever inserted into oauth_connections
MaxTok == 2         \* token pairs ever issued by the providers
MaxTasks == 2       \* length of a multi-task list
MaxSessions == 3    \* sessions ever created in the session service

(***************************************************************************)
(* Program constants                                                       *)
(***************************************************************************)
DefaultExpiresIn == 3600     \* token_data.get("expires_in", 3600)
DefaultNumCompanies == 5     \* task_info.get("num_companies", 5)

Users == {"u1"}              \* users of the credential store
SessionUsers == {"u1", "u2"} \* users of the session service
Providers == {"gmail", "airtable"}
Callers == {"c1", "c2"}      \* get_valid_token calls, one coroutine each
Lifetimes == {0}             \* expires_in values a refresh answer carries
SignInLifetimes == {1}       \* lifetime of the token a sign-in stores

Absent == -1                 \* a JSON field that is missing from a response
NoToken == 0                 \* Python None where a token is expected
NoCount == -1                \* Python None where a count is expected
Invalid == -2                \* a num_companies value that is not a number
None == {}                   \* Optional values are sets of at most one element
Some(x) == {x}
OrElse(o, d) == IF o = {} THEN d ELSE CHOOSE x \in o : TRUE

VARIABLES
    rows,       \* table oauth_connections, in insertion order
    now,        \* datetime.now(timezone.utc), in seconds
    issued,     \* number of token pairs the providers have issued
    gvt,        \* gvt[c]: the get_valid_token coroutine of caller c
    req,        \* the process_request coroutine
    guc,        \* the get_user_credentials coroutine of that request
    chat,       \* the coroutine of the /chat endpoint
    sessions,   \* session_service: user -> session ids, in creation order
    goc,        \* goc[k]: the _get_or_create_session coroutine of caller k
    error_log,  \* logger.error("Error getting or creating session ...") was hit
    lead,       \* the lead handed to score_lead_against_icp
    icp,        \* the ICP handed to score_lead_against_icp
    scoring     \* what score_lead_against_icp returned, None before the call

authVars == <<rows, now, issued, gvt>>
dispatchVars == <<req, guc, chat>>
sessionVars == <<sessions, goc, error_log>>
scoreVars == <<lead, icp, scoring>>
vars == <<rows, now, issued, gvt, req, guc, chat, sessions, goc, error_log, lead,
          icp, scoring>>

(***************************************************************************)
(* Credential store: src/utils/supabase_client.py                          *)
(***************************************************************************)
\* a read that does not filter on is_active
get_oauth_connection_any(t, u, p) ==
    LET act == SelectSeq(t, LAMBDA r : r.user_id = u /\ r.provider = p)
    IN IF act # <<>> THEN {Head(act)} ELSE {}

\* .eq("user_id", u).eq("provider", p).eq("is_active", True) ; data[0] or None
get_oauth_connection(t, u, p) ==
    LET act == SelectSeq(t, LAMBDA r : r.user_id = u /\ r.provider = p /\ r.is_active)
    IN IF act # <<>> THEN {Head(act)} ELSE {}

\* an update that leaves the stored refresh token alone
update_oauth_tokens_keep_refresh(t, u, p, access_token, refresh_token, expires_in, t_now) ==
    [k \in 1..Len(t) |->
        IF t[k].user_id = u /\ t[k].provider = p
        THEN [t[k] EXCEPT !.access_token = access_token,
                          !.token_expires_at = t_now + expires_in]
        ELSE t[k]]

\* .update(update_data).eq("user_id", u).eq("provider", p): every row of the
\* pair, active or not.  `if refresh_token:` skips a falsy refresh token.
update_oauth_tokens(t, u, p, access_token, refresh_token, expires_in, t_now) ==
    [k \in 1..Len(t) |->
        IF t[k].user_id = u /\ t[k].provider = p
        THEN [t[k] EXCEPT !.access_token = access_token,
                          !.token_expires_at = t_now + expires_in,
                          !.refresh_token =
                              IF refresh_token # NoToken THEN refresh_token ELSE @]
        ELSE t[k]]

\* len(response.data) > 0
update_matches(t, u, p) ==
    \E k \in 1..Len(t) : t[k].user_id = u /\ t[k].provider = p

\* .insert(data): a plain insert of the connection as given
create_oauth_connection_rows(t, connection) == Append(t, connection)

\* .eq("user_id", u).eq("is_active", True): the active connections of a user
get_user_oauth_connections(t, u) ==
    SelectSeq(t, LAMBDA r : r.user_id = u /\ r.is_active)

\* a deactivate that deletes the rows of the pair
deactivate_oauth_connection_rows_delete(t, u, p) ==
    SelectSeq(t, LAMBDA r : ~(r.user_id = u /\ r.provider = p))

\* .update({"is_active": False}).eq("user_id", u).eq("provider", p)
deactivate_oauth_connection_rows(t, u, p) ==
    [k \in 1..Len(t) |->
        IF t[k].user_id = u /\ t[k].provider = p
        THEN [t[k] EXCEPT !.is_active = FALSE] ELSE t[k]]

(***************************************************************************)
(* Credential facade and refresh engine: src/utils/auth.py                 *)
(***************************************************************************)
\* A call keeps, besides the locals of the coroutine, two observations for
\* the properties: stale (the stored expiry lay in the past when the token
\* was returned) and overlap (the callers whose refresh POST for the same
\* pair was in flight together with this call's).
IdleCall ==
    [pc |-> "idle", user_id |-> "u1", provider |-> "gmail",
     refresh_token |-> NoToken, result |-> NoToken, refreshed |-> FALSE,
     answer |-> "none", stale |-> FALSE, overlap |-> {}]

\* the answers of a provider token endpoint to one POST
Responses ==
    [kind : {"exception", "non200"}, access_token : {Absent},
     refresh_token : {Absent}, expires_in : {Absent}]
    \cup
    [kind : {"ok200"}, access_token : {Absent, issued + 1},
     refresh_token : {Absent, issued + 1}, expires_in : Lifetimes \cup {Absent}]

\* get_valid_token up to its first suspension point: read the connection,
\* compare the expiry, and either return or send the refresh POST
get_valid_token(c, u, p, store_ok) ==
    /\ gvt[c].pc = "idle"
    /\ LET connection == IF store_ok THEN get_oauth_connection(rows, u, p) ELSE {}
       IN IF connection = {}
          THEN gvt' = [gvt EXCEPT ![c] =
                          [IdleCall EXCEPT !.pc = "done", !.user_id = u,
                                           !.provider = p]]
          ELSE LET conn == CHOOSE x \in connection : TRUE
               IN IF now >= conn.token_expires_at
                  THEN LET inflight == {d \in Callers \ {c} :
                                           /\ gvt[d].pc \in {"posting", "closing"}
                                           /\ gvt[d].refreshed
                                           /\ gvt[d].user_id = u
                                           /\ gvt[d].provider = p}
                       IN gvt' = [d \in Callers |->
                                    IF d = c
                                    THEN [IdleCall EXCEPT
                                             !.pc = "posting", !.user_id = u,
                                             !.provider = p, !.refreshed = TRUE,
                                             !.refresh_token = conn.refresh_token,
                                             !.overlap = inflight]
                                    ELSE IF d \in inflight
                                    THEN [gvt[d] EXCEPT !.overlap = @ \cup {c}]
                                    ELSE gvt[d]]
                  ELSE gvt' = [gvt EXCEPT ![c] =
                                  [IdleCall EXCEPT
                                      !.pc = "done", !.user_id = u, !.provider = p,
                                      !.result = conn.access_token,
                                      !.stale = conn.token_expires_at < now]]
    /\ UNCHANGED <<rows, now, issued, dispatchVars, sessionVars, scoreVars>>

\* a refresh that writes whatever a 200 answer carries
refresh_succeeds_unchecked(resp, store_ok, t, u, p) ==
    resp.kind = "ok200" /\ store_ok /\ update_matches(t, u, p)

\* status_code == 200, token_data["access_token"] is there (a KeyError ends
\* in the except branch), and update_oauth_tokens returned True
refresh_succeeds(resp, store_ok, t, u, p) ==
    /\ resp.kind = "ok200"
    /\ resp.access_token # Absent
    /\ store_ok
    /\ update_matches(t, u, p)

\* how the POST ended, as the refresh function sees it
refresh_answer(resp) ==
    IF resp.kind # "ok200" THEN resp.kind
    ELSE IF resp.access_token = Absent THEN "no_access_token" ELSE "ok200"

\* a refresh that hands out the tokens of a 200 answer whether or not the
\* store took them
refresh_token_response_unsaved(c, resp, store_ok) ==
    LET u == gvt[c].user_id
        p == gvt[c].provider
        refresh_token == IF resp.refresh_token = Absent
                         THEN gvt[c].refresh_token ELSE resp.refresh_token
        expires_in == IF resp.expires_in = Absent
                      THEN DefaultExpiresIn ELSE resp.expires_in
        success == refresh_succeeds(resp, store_ok, rows, u, p)
    IN /\ resp.kind = "ok200" => issued < MaxTok
       /\ rows' = IF success
                  THEN update_oauth_tokens(rows, u, p, resp.access_token,
                                           refresh_token, expires_in, now)
                  ELSE rows
       /\ issued' = IF resp.kind = "ok200" THEN issued + 1 ELSE issued
       /\ gvt' = [gvt EXCEPT ![c].pc = "closing",
                             ![c].answer = refresh_answer(resp),
                             ![c].result = IF refresh_answer(resp) = "ok200"
                                           THEN resp.access_token ELSE NoToken]
       /\ UNCHANGED <<now, dispatchVars, sessionVars, scoreVars>>

\* the body of refresh_gmail_token / refresh_airtable_token after the POST
\* has been answered, up to the exit of `async with`
refresh_token_response(c, resp, store_ok) ==
    LET u == gvt[c].user_id
        p == gvt[c].provider
        refresh_token == IF resp.refresh_token = Absent
                         THEN gvt[c].refresh_token ELSE resp.refresh_token
        expires_in == IF resp.expires_in = Absent
                      THEN DefaultExpiresIn ELSE resp.expires_in
        success == refresh_succeeds(resp, store_ok, rows, u, p)
    IN /\ resp.kind = "ok200" => issued < MaxTok
       /\ rows' = IF success
                  THEN update_oauth_tokens(rows, u, p, resp.access_token,
                                           refresh_token, expires_in, now)
                  ELSE rows
       /\ issued' = IF resp.kind = "ok200" THEN issued + 1 ELSE issued
       /\ gvt' = [gvt EXCEPT ![c].pc = "closing",
                             ![c].answer = refresh_answer(resp),
                             ![c].result = IF success THEN resp.access_token
                                           ELSE NoToken]
       /\ UNCHANGED <<now, dispatchVars, sessionVars, scoreVars>>

refresh_gmail_token(c) ==
    /\ gvt[c].pc = "posting"
    /\ gvt[c].provider = "gmail"
    /\ \E resp \in Responses, store_ok \in BOOLEAN :
           refresh_token_response(c, resp, store_ok)

refresh_airtable_token(c) ==
    /\ gvt[c].pc = "posting"
    /\ gvt[c].provider = "airtable"
    /\ \E resp \in Responses, store_ok \in BOOLEAN :
           refresh_token_response(c, resp, store_ok)

\* the AsyncClient has been closed: the refresh function returns and
\* get_valid_token hands token_data["access_token"] or None to its caller
get_valid_token_return(c) ==
    /\ gvt[c].pc = "closing"
    /\ gvt' = [gvt EXCEPT
                  ![c].pc = "done",
                  ![c].stale =
                      /\ gvt[c].result # NoToken
                      /\ \E conn \in get_oauth_connection(rows, gvt[c].user_id,
                                                          gvt[c].provider) :
                             conn.token_expires_at < now]
    /\ UNCHANGED <<rows, now, issued, dispatchVars, sessionVars, scoreVars>>

\* a connection as the OAuth sign-in hands it to create_oauth_connection
create_oauth_connection(u, p, life, store_ok) ==
    /\ Len(rows) < MaxRows
    /\ issued < MaxTok
    /\ IF store_ok
       THEN /\ rows' = create_oauth_connection_rows(rows,
                          [user_id |-> u, provider |-> p,
                           access_token |-> issued + 1,
                           refresh_token |-> issued + 1,
                           token_expires_at |-> now + life,
                           is_active |-> TRUE])
            /\ issued' = issued + 1
       ELSE UNCHANGED <<rows, issued>>
    /\ UNCHANGED <<now, gvt, dispatchVars, sessionVars, scoreVars>>

\* a deactivate that does not filter on user_id
deactivate_oauth_connection_provider(u, p, store_ok) ==
    /\ rows' = IF store_ok
               THEN [k \in 1..Len(rows) |->
                       IF rows[k].provider = p
                       THEN [rows[k] EXCEPT !.is_active = FALSE] ELSE rows[k]]
               ELSE rows
    /\ UNCHANGED <<now, issued, gvt, dispatchVars, sessionVars, scoreVars>>

deactivate_oauth_connection(u, p, store_ok) ==
    /\ rows' = IF store_ok THEN deactivate_oauth_connection_rows(rows, u, p)
               ELSE rows
    /\ UNCHANGED <<now, issued, gvt, dispatchVars, sessionVars, scoreVars>>

Tick ==
    /\ now < MaxTime
    /\ now' = now + 1
    /\ UNCHANGED <<rows, issued, gvt, dispatchVars, sessionVars, scoreVars>>

(***************************************************************************)
(* Session manager: src/sales_automation/agent.py, _get_or_create_session  *)
(* over google.adk InMemorySessionService                                  *)
(***************************************************************************)
SessionCallers == {"k1", "k2"}
IdleSession == [pc |-> "idle", user_id |-> "u1", returned |-> 0]

SessionCount(S) ==
    Cardinality(UNION {{<<u, n>> : n \in 1..Len(S[u])} : u \in SessionUsers})

\* session_service.list_sessions(app_name, user_id).sessions
list_sessions(S, u) == S[u]

\* session_service.create_session(app_name, user_id): a session with a new id
create_session(S, u) == [S EXCEPT ![u] = Append(@, SessionCount(S) + 1)]

Last(q) == q[Len(q)]

\* a call that creates a session whatever list_sessions answered
get_or_create_session_list_ignored(k, u, list_ok) ==
    /\ goc[k].pc \in {"idle", "done"}
    /\ goc' = [goc EXCEPT ![k] = [pc |-> "create", user_id |-> u, returned |-> 0]]
    /\ UNCHANGED <<error_log, sessions, authVars, dispatchVars, scoreVars>>

\* the call up to the answer of list_sessions
get_or_create_session_list(k, u, list_ok) ==
    /\ goc[k].pc \in {"idle", "done"}
    /\ IF ~list_ok
       THEN /\ goc' = [goc EXCEPT ![k] = [pc |-> "fallback", user_id |-> u,
                                          returned |-> 0]]
            /\ error_log' = TRUE
       ELSE /\ goc' = [goc EXCEPT ![k] =
                         IF list_sessions(sessions, u) # <<>>
                         THEN [pc |-> "done", user_id |-> u,
                               returned |-> Last(list_sessions(sessions, u))]
                         ELSE [pc |-> "create", user_id |-> u, returned |-> 0]]
            /\ UNCHANGED error_log
    /\ UNCHANGED <<sessions, authVars, dispatchVars, scoreVars>>

\* no session was listed: create_session inside the try block
get_or_create_session_create(k, create_ok) ==
    /\ goc[k].pc = "create"
    /\ IF create_ok
       THEN /\ SessionCount(sessions) < MaxSessions
            /\ sessions' = create_session(sessions, goc[k].user_id)
            /\ goc' = [goc EXCEPT ![k].pc = "done",
                                  ![k].returned = Last(sessions'[goc[k].user_id])]
            /\ UNCHANGED error_log
       ELSE /\ goc' = [goc EXCEPT ![k].pc = "fallback"]
            /\ error_log' = TRUE
            /\ UNCHANGED sessions
    /\ UNCHANGED <<authVars, dispatchVars, scoreVars>>

\* the except branch: "Fallback to creating a new session"
get_or_create_session_fallback(k) ==
    /\ goc[k].pc = "fallback"
    /\ SessionCount(sessions) < MaxSessions
    /\ sessions' = create_session(sessions, goc[k].user_id)
    /\ goc' = [goc EXCEPT ![k].pc = "done",
                          ![k].returned = Last(sessions'[goc[k].user_id])]
    /\ UNCHANGED <<error_log, authVars, dispatchVars, scoreVars>>

\* every other call has returned: the calls follow one another
Sequential(k) == \A j \in SessionCallers \ {k} : goc[j].pc \in {"idle", "done"}

(***************************************************************************)
(* Workflow dispatcher: src/sales_automation/agent.py                      *)
(***************************************************************************)
Kinds == {"prospecting", "enrichment", "qualify", "personalize"}
TaskNames == Kinds \cup {"other"}
AgentTexts == {"", "summary"}      \* "" is what a failed agent run returns
RequestUser == "u1"

\* what extract_json_from_text makes of the parser's answer
TaskInfos ==
    [shape : {"none", "nondict", "chat"}, task : {<<>>},
     send_emails : {FALSE}, num_companies : {Absent}]
    \cup
    [shape : {"single"}, task : [1..1 -> TaskNames],
     send_emails : BOOLEAN, num_companies : {Absent, 2, Invalid}]
    \cup
    [shape : {"list"}, task : UNION {[1..n -> TaskNames] : n \in 0..MaxTasks},
     send_emails : BOOLEAN, num_companies : {Absent, 2, Invalid}]

AgentResponse(success, message, data, leads_processed, errors) ==
    [success |-> success, message |-> message, data |-> data,
     leads_processed |-> leads_processed, errors |-> errors]

NoInfo ==
    [shape |-> "none", task |-> <<>>, send_emails |-> FALSE,
     num_companies |-> Absent]

IdleRequest ==
    [pc |-> "idle", creds |-> {}, info |-> NoInfo, i |-> 0, results |-> <<>>,
     errors |-> <<>>, agent_log |-> <<>>, response |-> None]

\* _run_agent_with_prompt up to runner.run_async: the session is looked up
\* or created, then the prompt is handed to the agent
run_agent_sessions(S, u, list_ok) ==
    IF list_ok /\ list_sessions(S, u) # <<>> THEN S ELSE create_session(S, u)

run_agent_with_prompt(list_ok) ==
    /\ sessions' = run_agent_sessions(sessions, RequestUser, list_ok)
    /\ sessions' # sessions => SessionCount(sessions) < MaxSessions
    /\ error_log' = (error_log \/ ~list_ok)
    /\ UNCHANGED goc

\* the credential checks at the head of each handler: the failure response,
\* or None when the handler goes on to the agent
\* a prospecting handler that asks for both connections
handle_prospecting_check_both(creds) ==
    IF "airtable" \notin creds \/ "gmail" \notin creds
    THEN Some(AgentResponse(FALSE,
              <<"Airtable connection required for prospecting. Please connect your Airtable account.">>,
              "", NoCount, Some(<<"No Airtable credentials">>)))
    ELSE None

handle_prospecting_check(creds) ==
    IF "airtable" \notin creds
    THEN Some(AgentResponse(FALSE,
              <<"Airtable connection required for prospecting. Please connect your Airtable account.">>,
              "", NoCount, Some(<<"No Airtable credentials">>)))
    ELSE None

handle_enrichment_check(creds) ==
    IF "airtable" \notin creds
    THEN Some(AgentResponse(FALSE, <<"Airtable connection required for enrichment.">>,
              "", NoCount, Some(<<"No Airtable credentials">>)))
    ELSE None

handle_qualification_check(creds) ==
    IF "airtable" \notin creds
    THEN Some(AgentResponse(FALSE, <<"Airtable connection required for qualification.">>,
              "", NoCount, Some(<<"No Airtable credentials">>)))
    ELSE None

\* a personalization handler that does not look for the Gmail credential
handle_personalization_check_airtable_only(creds, send_emails) ==
    handle_enrichment_check(creds)

handle_personalization_check(creds, send_emails) ==
    IF "airtable" \notin creds
    THEN Some(AgentResponse(FALSE, <<"Airtable connection required for personalization.">>,
              "", NoCount, Some(<<"No Airtable credentials">>)))
    ELSE IF send_emails /\ "gmail" \notin creds
    THEN Some(AgentResponse(FALSE, <<"Gmail connection required for sending emails.">>,
              "", NoCount, Some(<<"No Gmail credentials">>)))
    ELSE None

\* the responses built after the agent has answered
handle_prospecting_result(info, text) ==
    LET num_companies == IF info.num_companies = Absent
                         THEN DefaultNumCompanies ELSE info.num_companies
    IN IF num_companies = Invalid
       THEN AgentResponse(FALSE, <<"Prospecting failed">>, "", NoCount,
                          Some(<<"validation error">>))
       ELSE AgentResponse(TRUE, <<text>>, "prospecting", num_companies, None)

handle_enrichment_result(text) ==
    AgentResponse(TRUE, <<text>>, "enrichment", NoCount, None)

handle_qualification_result(text) ==
    AgentResponse(TRUE, <<text>>, "qualification", NoCount, None)

handle_personalization_result(text) ==
    AgentResponse(TRUE, <<text>>, "personalization", NoCount, None)

\* a routing whose last branch is the personalization handler
handle_single_task_check_default(task_type, creds, send_emails) ==
    IF task_type = "prospecting" THEN handle_prospecting_check(creds)
    ELSE IF task_type = "enrichment" THEN handle_enrichment_check(creds)
    ELSE IF task_type = "qualify" THEN handle_qualification_check(creds)
    ELSE handle_personalization_check(creds, send_emails)

\* _handle_single_task before the handler reaches the agent
handle_single_task_check(task_type, creds, send_emails) ==
    IF task_type = "prospecting" THEN handle_prospecting_check(creds)
    ELSE IF task_type = "enrichment" THEN handle_enrichment_check(creds)
    ELSE IF task_type = "qualify" THEN handle_qualification_check(creds)
    ELSE IF task_type = "personalize"
    THEN handle_personalization_check(creds, send_emails)
    ELSE Some(AgentResponse(FALSE, <<"Unknown task type">>, "", NoCount,
                            Some(<<"Unsupported task">>)))

handle_single_task_result(task_type, info, text) ==
    IF task_type = "prospecting" THEN handle_prospecting_result(info, text)
    ELSE IF task_type = "enrichment" THEN handle_enrichment_result(text)
    ELSE IF task_type = "qualify" THEN handle_qualification_result(text)
    ELSE handle_personalization_result(text)

RECURSIVE total_leads(_)
\* sum(r.leads_processed or 0 for r in results)
total_leads(results) ==
    IF results = <<>> THEN 0
    ELSE (IF Head(results).leads_processed = NoCount THEN 0
          ELSE Head(results).leads_processed) + total_leads(Tail(results))

\* an aggregate that succeeds as soon as one step has succeeded
handle_multiple_tasks_combine_any(tasks, results, errors) ==
    LET success_count == Cardinality({k \in 1..Len(results) : results[k].success})
    IN AgentResponse(success_count > 0,
                     <<"Completed", success_count, Len(tasks), total_leads(results)>>,
                     "task_results", total_leads(results),
                     IF errors # <<>> THEN Some(errors) ELSE None)

\* the tail of _handle_multiple_tasks: "Combine results"
handle_multiple_tasks_combine(tasks, results, errors) ==
    LET success_count == Cardinality({k \in 1..Len(results) : results[k].success})
    IN AgentResponse(success_count = Len(tasks),
                     <<"Completed", success_count, Len(tasks), total_leads(results)>>,
                     "task_results", total_leads(results),
                     IF errors # <<>> THEN Some(errors) ELSE None)

\* a loop that stops at the first failing step
task_returned_abort(r, task_result) ==
    IF r.info.shape = "single"
    THEN [r EXCEPT !.pc = "done", !.results = Append(@, task_result),
                   !.response = Some(task_result)]
    ELSE LET results == Append(r.results, task_result)
             errors == IF ~task_result.success
                       THEN r.errors \o OrElse(task_result.errors, <<>>)
                       ELSE r.errors
         IN IF r.i = Len(r.info.task) \/ ~task_result.success
            THEN [r EXCEPT !.pc = "done", !.results = results, !.errors = errors,
                           !.response = Some(handle_multiple_tasks_combine(
                                                r.info.task, results, errors))]
            ELSE [r EXCEPT !.pc = "dispatch", !.i = @ + 1, !.results = results,
                           !.errors = errors]

\* one pass of the loop body of _handle_multiple_tasks after the step has
\* returned task_result (or the return of _handle_single_task for one task)
task_returned(r, task_result) ==
    IF r.info.shape = "single"
    THEN [r EXCEPT !.pc = "done", !.results = Append(@, task_result),
                   !.response = Some(task_result)]
    ELSE LET results == Append(r.results, task_result)
             errors == IF ~task_result.success
                       THEN r.errors \o OrElse(task_result.errors, <<>>)
                       ELSE r.errors
         IN IF r.i = Len(r.info.task)
            THEN [r EXCEPT !.pc = "done", !.results = results, !.errors = errors,
                           !.response = Some(handle_multiple_tasks_combine(
                                                r.info.task, results, errors))]
            ELSE [r EXCEPT !.pc = "dispatch", !.i = @ + 1, !.results = results,
                           !.errors = errors]

\* a process_request that goes on to the parser whatever the credentials are
process_request_unchecked(creds, list_ok) ==
    /\ req.pc \in {"idle", "done"}
    /\ req' = [IdleRequest EXCEPT
                  !.pc = "parsing", !.creds = creds,
                  !.agent_log = <<[step |-> 0, purpose |-> "parse",
                                   gmail_send |-> FALSE]>>]
    /\ run_agent_with_prompt(list_ok)
    /\ UNCHANGED <<guc, chat, authVars, scoreVars>>

\* process_request up to the parsing agent run
process_request(creds, list_ok) ==
    /\ req.pc \in {"idle", "done"}
    /\ IF creds = {}
       THEN /\ req' = [IdleRequest EXCEPT
                          !.pc = "done",
                          !.response = Some(AgentResponse(FALSE,
                              <<"Please connect your Gmail and Airtable accounts to use the sales automation agent.">>,
                              "", NoCount, Some(<<"No user credentials found">>)))]
            /\ UNCHANGED sessionVars
       ELSE /\ req' = [IdleRequest EXCEPT
                          !.pc = "parsing", !.creds = creds,
                          !.agent_log = <<[step |-> 0, purpose |-> "parse",
                                           gmail_send |-> FALSE]>>]
            /\ run_agent_with_prompt(list_ok)
    /\ UNCHANGED <<guc, chat, authVars, scoreVars>>

\* _parse_user_request has returned task_info; process_request routes it
parse_user_request(info) ==
    /\ req.pc = "parsing"
    /\ req' =
         IF info.shape = "none"
         THEN [req EXCEPT !.pc = "done", !.info = info,
                 !.response = Some(AgentResponse(FALSE,
                     <<"I couldn't understand your request. Please try rephrasing it.">>,
                     "", NoCount, Some(<<"Failed to parse user request">>)))]
         ELSE IF info.shape = "nondict"
         THEN [req EXCEPT !.pc = "done", !.info = info,
                 !.response = Some(AgentResponse(FALSE,
                     <<"An error occurred while processing your request">>,
                     "", NoCount, Some(<<"attribute error">>)))]
         ELSE IF info.shape = "chat"
         THEN [req EXCEPT !.pc = "done", !.info = info,
                 !.response = Some(AgentResponse(TRUE, <<"response">>,
                                                 "task_info", 0, None))]
         ELSE IF info.shape = "list" /\ info.task = <<>>
         THEN [req EXCEPT !.pc = "done", !.info = info,
                 !.response = Some(handle_multiple_tasks_combine(<<>>, <<>>, <<>>))]
         ELSE [req EXCEPT !.pc = "dispatch", !.info = info, !.i = 1]
    /\ UNCHANGED <<guc, chat, authVars, sessionVars, scoreVars>>

\* _handle_single_task for step i, up to the handler's agent run
handle_single_task(list_ok) ==
    /\ req.pc = "dispatch"
    /\ LET info == req.info
           task_type == info.task[req.i]
           failed == handle_single_task_check(task_type, req.creds, info.send_emails)
       IN IF failed # None
          THEN /\ req' = task_returned(req, CHOOSE x \in failed : TRUE)
               /\ UNCHANGED sessionVars
          ELSE /\ req' = [req EXCEPT
                            !.pc = "awaiting",
                            !.agent_log = Append(@,
                               [step |-> req.i, purpose |-> task_type,
                                gmail_send |-> /\ task_type = "personalize"
                                               /\ info.send_emails
                                               /\ "gmail" \in req.creds])]
               /\ run_agent_with_prompt(list_ok)
    /\ UNCHANGED <<guc, chat, authVars, scoreVars>>

\* the agent has answered: the handler builds its response and returns
handle_single_task_return(text) ==
    /\ req.pc = "awaiting"
    /\ LET task_result == handle_single_task_result(req.info.task[req.i],
                                                     req.info, text)
       IN req' = task_returned(req, task_result)
    /\ UNCHANGED <<guc, chat, authVars, sessionVars, scoreVars>>

(***************************************************************************)
(* get_user_credentials (src/utils/auth.py) as process_request calls it.    *)
(* Its two get_valid_token calls are coroutines of CredentialsCaller; the   *)
(* follow-up get_oauth_connection is a second round trip to the store.      *)
(***************************************************************************)
CredentialsCaller == "c1"

\* pc names the provider whose block of get_user_credentials is running
IdleCredentials == [pc |-> "idle", credentials |-> [p \in Providers |-> NoToken]]

\* the providers that are keys of the credentials dict
Connected(credentials) == {p \in Providers : credentials[p] # NoToken}

\* gmail_token = await self.get_valid_token(user_id, "gmail"), and the same
\* line of the Airtable block
get_user_credentials_token(store_ok) ==
    /\ guc.pc \in Providers
    /\ get_valid_token(CredentialsCaller, RequestUser, guc.pc, store_ok)

\* a block that calls get_valid_token again after a refresh that failed
get_user_credentials_connection_retry(store_ok) ==
    /\ guc.pc \in Providers
    /\ gvt[CredentialsCaller].pc = "done"
    /\ LET p == guc.pc
           token == gvt[CredentialsCaller].result
           connection == IF store_ok
                         THEN get_oauth_connection(rows, RequestUser, p) ELSE {}
           next == IF p = "gmail" THEN "airtable" ELSE "returned"
       IN guc' = IF token = NoToken
                 THEN IF gvt[CredentialsCaller].refreshed THEN guc
                      ELSE [guc EXCEPT !.pc = next]
                 ELSE IF connection = {} THEN [guc EXCEPT !.pc = "raised"]
                 ELSE [guc EXCEPT !.pc = next, !.credentials[p] = token]
    /\ gvt' = [gvt EXCEPT ![CredentialsCaller] = IdleCall]
    /\ UNCHANGED <<rows, now, issued, req, chat, sessionVars, scoreVars>>

\* `if token:` with the follow-up read of the connection; a connection
\* that reads as None raises AttributeError on `.refresh_token`
get_user_credentials_connection(store_ok) ==
    /\ guc.pc \in Providers
    /\ gvt[CredentialsCaller].pc = "done"
    /\ LET p == guc.pc
           token == gvt[CredentialsCaller].result
           connection == IF store_ok
                         THEN get_oauth_connection(rows, RequestUser, p) ELSE {}
           next == IF p = "gmail" THEN "airtable" ELSE "returned"
       IN guc' = IF token = NoToken THEN [guc EXCEPT !.pc = next]
                 ELSE IF connection = {} THEN [guc EXCEPT !.pc = "raised"]
                 ELSE [guc EXCEPT !.pc = next, !.credentials[p] = token]
    /\ gvt' = [gvt EXCEPT ![CredentialsCaller] = IdleCall]
    /\ UNCHANGED <<rows, now, issued, req, chat, sessionVars, scoreVars>>

\* process_request once get_user_credentials has returned its dict
process_request_credentials(list_ok) ==
    /\ guc.pc = "returned"
    /\ req.pc = "idle"
    /\ process_request(Connected(guc.credentials), list_ok)

\* the except branch of process_request for an exception that
\* get_user_credentials let through
process_request_except ==
    /\ guc.pc = "raised"
    /\ req.pc = "idle"
    /\ req' = [IdleRequest EXCEPT
                  !.pc = "done",
                  !.response = Some(AgentResponse(FALSE,
                      <<"An error occurred while processing your request">>,
                      "", NoCount, Some(<<"attribute error">>)))]
    /\ UNCHANGED <<guc, chat, authVars, sessionVars, scoreVars>>

(***************************************************************************)
(* The update_oauth_tokens tool the MCP server offers to the planning      *)
(* agent: src/mcp_tools/supabase_client.py                                 *)
(***************************************************************************)
AgentToken == MaxTok + 3     \* a token string the agent puts into a tool call

\* update_data of the tool: the refresh token is written for Airtable only
tool_update_data(r, p, access_token, refresh_token, expires_in, t_now) ==
    [r EXCEPT !.access_token = access_token,
              !.token_expires_at = t_now + expires_in,
              !.refresh_token = IF p = "airtable" /\ refresh_token # NoToken
                                THEN refresh_token ELSE @]

\* one call of the tool; a missing argument or configuration and a failing
\* store end in an error text
tool_update_oauth_tokens(u, p, access_token, refresh_token, expires_in, store_ok) ==
    /\ rows' = IF access_token = NoToken \/ ~store_ok THEN rows
               ELSE [k \in 1..Len(rows) |->
                       IF rows[k].user_id = u /\ rows[k].provider = p
                       THEN tool_update_data(rows[k], p, access_token, refresh_token,
                                IF expires_in = Absent THEN DefaultExpiresIn
                                ELSE expires_in, now)
                       ELSE rows[k]]
    /\ UNCHANGED <<now, issued, gvt, dispatchVars, sessionVars, scoreVars>>

(***************************************************************************)
(* The /chat endpoint: src/main.py, chat                                   *)
(***************************************************************************)
ChatTexts == {"Response from agent", "summary"}
IdleChat == [pc |-> "idle", user_id |-> "u1", outcome |-> None]

\* what the endpoint hands to the HTTP layer
HTTPException(status_code, detail) ==
    [kind |-> "HTTPException", status_code |-> status_code, detail |-> detail,
     body |-> None]

ChatResponse(body) ==
    [kind |-> "AgentResponse", status_code |-> 200, detail |-> "",
     body |-> Some(body)]

\* chat up to runner.run_async: the request is validated and the session
\* is looked up or created
chat_request(u, user_id_ok, message_ok, list_ok) ==
    /\ chat.pc \in {"idle", "done"}
    /\ IF ~user_id_ok
       THEN /\ chat' = [pc |-> "done", user_id |-> u,
                        outcome |-> Some(HTTPException(400, "User ID is required"))]
            /\ UNCHANGED sessionVars
       ELSE IF ~message_ok
       THEN /\ chat' = [pc |-> "done", user_id |-> u,
                        outcome |-> Some(HTTPException(400, "Message cannot be empty"))]
            /\ UNCHANGED sessionVars
       ELSE /\ chat' = [pc |-> "running", user_id |-> u, outcome |-> None]
            /\ sessions' = run_agent_sessions(sessions, u, list_ok)
            /\ sessions' # sessions => SessionCount(sessions) < MaxSessions
            /\ error_log' = (error_log \/ ~list_ok)
            /\ UNCHANGED goc
    /\ UNCHANGED <<req, guc, authVars, scoreVars>>

\* the agent run has ended, with a fault or with its events
chat_return(fault, text) ==
    /\ chat.pc = "running"
    /\ chat' = [chat EXCEPT
                   !.pc = "done",
                   !.outcome =
                       IF fault
                       THEN Some(HTTPException(500, "Internal server error"))
                       ELSE Some(ChatResponse(AgentResponse(TRUE, <<text>>,
                                     "session_id", 0, Some(<<>>))))]
    /\ UNCHANGED <<req, guc, authVars, sessionVars, scoreVars>>

(***************************************************************************)
(* Lead scoring: src/utils/helpers.py, score_lead_against_icp.  A string   *)
(* is the sequence of its characters; None and "" are both the empty       *)
(* sequence, as the code only tests their truth value.                     *)
(***************************************************************************)
\* str.lower(), on the characters the inputs use
LowerChar(ch) ==
    CASE ch = "S" -> "s"
      [] ch = "C" -> "c"
      [] ch = "R" -> "r"
      [] ch = "M" -> "m"
      [] OTHER -> ch

Lower(str) == [n \in 1..Len(str) |-> LowerChar(str[n])]

\* Python's `sub in str` on strings
Contains(sub, str) ==
    \E n \in 0..(Len(str) - Len(sub)) : SubSeq(str, n + 1, n + Len(sub)) = sub

\* a scorer whose Hot rating starts at 7
score_lead_against_icp_hot7(l, p) ==
    LET industry_rated == l.industry # <<>> /\ p.target_industries # <<>>
        industry_match ==
            \E n \in 1..Len(p.target_industries) :
                Contains(Lower(p.target_industries[n]), Lower(l.industry))
        industry_points == IF industry_rated /\ industry_match THEN 3 ELSE 0
        size_rated == l.company_size # <<>> /\ p.company_size_range # <<>>
        size_match == Contains(Lower(p.company_size_range), Lower(l.company_size))
        size_points == IF ~size_rated THEN 0 ELSE IF size_match THEN 3 ELSE 1
        use_case_points ==
            IF /\ l.background # <<>>
               /\ p.use_cases # <<>>
               /\ \E n \in 1..Len(p.use_cases) :
                      Contains(Lower(p.use_cases[n]), Lower(l.background))
            THEN 2 ELSE 0
        pain_point_points ==
            IF /\ l.background # <<>>
               /\ p.pain_points # <<>>
               /\ \E n \in 1..Len(p.pain_points) :
                      Contains(Lower(p.pain_points[n]), Lower(l.background))
            THEN 2 ELSE 0
        score == industry_points + size_points + use_case_points + pain_point_points
        reasoning ==
            (IF ~industry_rated THEN <<>>
             ELSE IF industry_match THEN <<"Industry match">>
             ELSE <<"Industry mismatch">>)
            \o (IF ~size_rated THEN <<>>
                ELSE IF size_match THEN <<"Company size match">>
                ELSE <<"Partial company size match">>)
            \o (IF use_case_points = 2 THEN <<"Use case alignment">> ELSE <<>>)
            \o (IF pain_point_points = 2 THEN <<"Pain point alignment">> ELSE <<>>)
    IN [score |-> IF score >= 7 THEN "Hot" ELSE IF score >= 5 THEN "Warm" ELSE "Cold",
        numerical_score |-> score,
        reasoning |-> IF reasoning # <<>> THEN reasoning
                      ELSE <<"Limited data for scoring">>]

\* score_lead_against_icp(lead, icp) on string and list-of-string fields
score_lead_against_icp(l, p) ==
    LET industry_rated == l.industry # <<>> /\ p.target_industries # <<>>
        industry_match ==
            \E n \in 1..Len(p.target_industries) :
                Contains(Lower(p.target_industries[n]), Lower(l.industry))
        industry_points == IF industry_rated /\ industry_match THEN 3 ELSE 0
        size_rated == l.company_size # <<>> /\ p.company_size_range # <<>>
        size_match == Contains(Lower(p.company_size_range), Lower(l.company_size))
        size_points == IF ~size_rated THEN 0 ELSE IF size_match THEN 3 ELSE 1
        use_case_points ==
            IF /\ l.background # <<>>
               /\ p.use_cases # <<>>
               /\ \E n \in 1..Len(p.use_cases) :
                      Contains(Lower(p.use_cases[n]), Lower(l.background))
            THEN 2 ELSE 0
        pain_point_points ==
            IF /\ l.background # <<>>
               /\ p.pain_points # <<>>
               /\ \E n \in 1..Len(p.pain_points) :
                      Contains(Lower(p.pain_points[n]), Lower(l.background))
            THEN 2 ELSE 0
        score == industry_points + size_points + use_case_points + pain_point_points
        reasoning ==
            (IF ~industry_rated THEN <<>>
             ELSE IF industry_match THEN <<"Industry match">>
             ELSE <<"Industry mismatch">>)
            \o (IF ~size_rated THEN <<>>
                ELSE IF size_match THEN <<"Company size match">>
                ELSE <<"Partial company size match">>)
            \o (IF use_case_points = 2 THEN <<"Use case alignment">> ELSE <<>>)
            \o (IF pain_point_points = 2 THEN <<"Pain point alignment">> ELSE <<>>)
    IN [score |-> IF score >= 8 THEN "Hot" ELSE IF score >= 5 THEN "Warm" ELSE "Cold",
        numerical_score |-> score,
        reasoning |-> IF reasoning # <<>> THEN reasoning
                      ELSE <<"Limited data for scoring">>]

s_SaaS == <<"S", "a", "a", "S">>
s_saas == <<"s", "a", "a", "s">>
s_b2b_saas == <<"b", "2", "b", " ", "s", "a", "a", "s">>
s_retail == <<"r", "e", "t", "a", "i", "l">>
s_7 == <<"7">>
s_12 == <<"1", "2">>
s_5_9 == <<"5", "-", "9">>
s_5_9_staff == <<"5", "-", "9", " ", "s", "t", "a", "f", "f">>
s_crm == <<"c", "r", "m">>
s_CRM == <<"C", "R", "M">>
s_lag == <<"l", "a", "g">>
s_crm_lag == <<"C", "R", "M", " ", "l", "a", "g">>
s_lag_only == <<"n", "o", " ", "l", "a", "g">>

Leads ==
    [industry : {<<>>, s_SaaS, s_b2b_saas, s_retail},
     company_size : {<<>>, s_7, s_12, s_5_9, s_5_9_staff},
     background : {<<>>, s_crm, s_crm_lag, s_lag_only}]

ICPs ==
    [target_industries : {<<>>, <<s_saas>>, <<s_retail, s_SaaS>>},
     company_size_range : {<<>>, s_5_9},
     use_cases : {<<>>, <<s_crm>>, <<s_lag, s_CRM>>},
     pain_points : {<<>>, <<s_lag>>}]

score_lead ==
    /\ scoring = None
    /\ scoring' = Some(score_lead_against_icp(lead, icp))
    /\ UNCHANGED <<lead, icp, authVars, dispatchVars, sessionVars>>

InitAuth ==
    /\ rows = <<>>
    /\ now = 0
    /\ issued = 0
    /\ gvt = [c \in Callers |-> IdleCall]

InitDispatch == req = IdleRequest /\ guc = IdleCredentials /\ chat = IdleChat

InitSession ==
    /\ sessions = [u \in SessionUsers |-> <<>>]
    /\ goc = [k \in SessionCallers |-> IdleSession]
    /\ error_log = FALSE

InitScore ==
    /\ lead = [industry |-> <<>>, company_size |-> <<>>, background |-> <<>>]
    /\ icp = [target_industries |-> <<>>, company_size_range |-> <<>>,
              use_cases |-> <<>>, pain_points |-> <<>>]
    /\ scoring = None

Init == InitAuth /\ InitDispatch /\ InitSession /\ InitScore

\* the credential lifecycle under concurrent callers
Next ==
    \/ \E c \in Callers, u \in Users, p \in Providers, ok \in BOOLEAN :
           get_valid_token(c, u, p, ok)
    \/ \E c \in Callers : refresh_gmail_token(c)
    \/ \E c \in Callers : refresh_airtable_token(c)
    \/ \E c \in Callers : get_valid_token_return(c)
    \/ \E u \in Users, p \in Providers, life \in SignInLifetimes, ok \in BOOLEAN :
           create_oauth_connection(u, p, life, ok)
    \/ \E u \in Users, p \in Providers, ok \in BOOLEAN :
           deactivate_oauth_connection(u, p, ok)
    \/ Tick

Spec == Init /\ [][Next]_vars

\* concurrent get_valid_token calls on one connection that an earlier
\* sign-in stored and whose expiry has been reached
SignInToken == MaxTok + 1

InitRefresh ==
    /\ \E p \in Providers :
           rows = <<[user_id |-> "u1", provider |-> p,
                     access_token |-> SignInToken, refresh_token |-> SignInToken,
                     token_expires_at |-> 0, is_active |-> TRUE]>>
    /\ now = 0
    /\ issued = 0
    /\ gvt = [c \in Callers |-> IdleCall]
    /\ InitDispatch /\ InitSession /\ InitScore

NextRefresh ==
    \/ \E c \in Callers, u \in Users, p \in Providers, ok \in BOOLEAN :
           get_valid_token(c, u, p, ok)
    \/ \E c \in Callers : refresh_gmail_token(c)
    \/ \E c \in Callers : refresh_airtable_token(c)
    \/ \E c \in Callers : get_valid_token_return(c)
    \/ Tick

SpecRefresh == InitRefresh /\ [][NextRefresh]_vars

\* one request from get_user_credentials to its response, over the
\* connections of earlier sign-ins, while the clock runs and, as long as
\* the credentials are being gathered, connections are revoked
StoredExpiries == {0, 1}
RequestTasks == {"prospecting", "personalize"}
RequestInfos ==
    {info \in TaskInfos :
        /\ info.num_companies = Absent
        /\ info.shape \in {"single", "list"} => info.send_emails
        /\ \A n \in 1..Len(info.task) : info.task[n] \in RequestTasks}

StoredConnection(p, token, expires) ==
    [user_id |-> RequestUser, provider |-> p, access_token |-> token,
     refresh_token |-> token, token_expires_at |-> expires, is_active |-> TRUE]

InitRequest ==
    /\ \E g, a \in StoredExpiries \cup {Absent} :
           rows = (IF g = Absent THEN <<>>
                   ELSE <<StoredConnection("gmail", SignInToken, g)>>)
                  \o (IF a = Absent THEN <<>>
                      ELSE <<StoredConnection("airtable", SignInToken + 1, a)>>)
    /\ now = 0
    /\ issued = 0
    /\ gvt = [c \in Callers |-> IdleCall]
    /\ req = IdleRequest
    /\ guc = [IdleCredentials EXCEPT !.pc = "gmail"]
    /\ chat = IdleChat
    /\ InitSession /\ InitScore

NextRequest ==
    \/ \E ok \in BOOLEAN : get_user_credentials_token(ok)
    \/ refresh_gmail_token(CredentialsCaller)
    \/ refresh_airtable_token(CredentialsCaller)
    \/ get_valid_token_return(CredentialsCaller)
    \/ \E ok \in BOOLEAN : get_user_credentials_connection(ok)
    \/ process_request_credentials(TRUE)
    \/ process_request_except
    \/ \E info \in RequestInfos : parse_user_request(info)
    \/ handle_single_task(TRUE)
    \/ handle_single_task_return("summary")
    \/ \E p \in Providers, ok \in BOOLEAN :
           guc.pc \in Providers /\ deactivate_oauth_connection(RequestUser, p, ok)
    \/ Tick

SpecRequest == InitRequest /\ [][NextRequest]_vars

\* refreshes and revocations of two users over the connections of earlier
\* sign-ins: two providers of one user and one provider of the other
FrameUsers == {"u1", "u2"}

InitFrame ==
    /\ rows = <<[StoredConnection("gmail", SignInToken, 0) EXCEPT !.user_id = "u1"],
                [StoredConnection("airtable", SignInToken + 1, 0) EXCEPT !.user_id = "u1"],
                [StoredConnection("gmail", SignInToken + 2, 0) EXCEPT !.user_id = "u2"]>>
    /\ now = 0
    /\ issued = 0
    /\ gvt = [c \in Callers |-> IdleCall]
    /\ InitDispatch /\ InitSession /\ InitScore

NextFrame ==
    \/ \E c \in Callers, u \in FrameUsers, p \in Providers, ok \in BOOLEAN :
           get_valid_token(c, u, p, ok)
    \/ \E c \in Callers : refresh_gmail_token(c)
    \/ \E c \in Callers : refresh_airtable_token(c)
    \/ \E c \in Callers : get_valid_token_return(c)
    \/ \E u \in FrameUsers, p \in Providers, ok \in BOOLEAN :
           deactivate_oauth_connection(u, p, ok)

SpecFrame == InitFrame /\ [][NextFrame]_vars

\* the refreshing calls while the planning agent uses its tool
NextTools ==
    \/ NextRefresh
    \/ \E u \in Users, p \in Providers, access_token, refresh_token \in {NoToken, AgentToken},
          expires_in \in Lifetimes \cup {Absent}, ok \in BOOLEAN :
           tool_update_oauth_tokens(u, p, access_token, refresh_token, expires_in, ok)

SpecTools == InitRefresh /\ [][NextTools]_vars

\* one request after the other through the /chat endpoint
NextChat ==
    \/ \E u \in SessionUsers, user_id_ok, message_ok, list_ok \in BOOLEAN :
           chat_request(u, user_id_ok, message_ok, list_ok)
    \/ \E fault \in BOOLEAN, text \in ChatTexts : chat_return(fault, text)

SpecChat == Init /\ [][NextChat]_vars

\* one request after the other through the dispatcher
NextDispatch ==
    \/ \E creds \in SUBSET Providers, ok \in BOOLEAN : process_request(creds, ok)
    \/ \E info \in TaskInfos : parse_user_request(info)
    \/ \E ok \in BOOLEAN : handle_single_task(ok)
    \/ \E text \in AgentTexts : handle_single_task_return(text)

SpecDispatch == Init /\ [][NextDispatch]_vars

\* _get_or_create_session, one call after the other
NextSession ==
    \/ \E k \in SessionCallers, u \in SessionUsers, ok \in BOOLEAN :
           Sequential(k) /\ get_or_create_session_list(k, u, ok)
    \/ \E k \in SessionCallers, ok \in BOOLEAN : get_or_create_session_create(k, ok)
    \/ \E k \in SessionCallers : get_or_create_session_fallback(k)

SpecSession == Init /\ [][NextSession]_vars

\* _get_or_create_session calls of concurrent requests: a call may be
\* suspended at `await list_sessions` and at `await create_session`, and
\* the session service answers every call
NextSessionConcurrent ==
    \/ \E k \in SessionCallers, u \in SessionUsers :
           get_or_create_session_list(k, u, TRUE)
    \/ \E k \in SessionCallers : get_or_create_session_create(k, TRUE)

SpecSessionConcurrent == Init /\ [][NextSessionConcurrent]_vars

\* score_lead_against_icp on every lead and ICP of the input sets
InitInputs ==
    /\ InitAuth /\ InitDispatch /\ InitSession
    /\ lead \in Leads
    /\ icp \in ICPs
    /\ scoring = None

NextScore == score_lead

SpecScore == InitInputs /\ [][NextScore]_vars

(***************************************************************************)
(* Properties                                                              *)
(***************************************************************************)
Returned(c) == gvt[c].pc = "done"
FailedAnswers == {"exception", "non200", "no_access_token"}

\* C1: whenever get_valid_token has returned a token, the expiry stored
\* for its (user, provider) was not in the past at the moment of return.
C1_ReturnedTokenNotExpired ==
    \A c \in Callers : Returned(c) /\ gvt[c].result # NoToken => ~gvt[c].stale

\* C2: concurrent get_valid_token calls for one expired (user, provider)
\* never have two refresh POSTs in flight: a second caller does not send
\* the refresh token while the first caller's POST is unanswered.
C2_OneRefreshInFlight ==
    \A c, d \in Callers :
        /\ c # d
        /\ gvt[c].pc = "posting"
        /\ gvt[d].pc = "posting"
        /\ gvt[c].user_id = gvt[d].user_id
        => gvt[c].provider # gvt[d].provider

\* C3: a refresh that ends with an exception, a non-200 answer or a 200
\* answer without access_token leaves the table as it was and makes
\* get_valid_token return None, in every step of the failing call.
C3_FailedRefreshKeepsStore ==
    [][\A c \in Callers :
          /\ (/\ gvt[c].pc = "posting"
              /\ gvt'[c].pc = "closing"
              /\ gvt'[c].answer \in FailedAnswers)
             => (rows' = rows /\ gvt'[c].result = NoToken)
          /\ (/\ gvt[c].pc = "closing"
              /\ gvt'[c].pc = "done"
              /\ gvt[c].answer \in FailedAnswers)
             => (rows' = rows /\ gvt'[c].result = NoToken)]_vars

C3_Witness ==
    \E c \in Callers :
        /\ Returned(c)
        /\ gvt[c].refreshed
        /\ gvt[c].answer = "no_access_token"
        /\ gvt[c].result = NoToken
        /\ \E conn \in get_oauth_connection(rows, gvt[c].user_id, gvt[c].provider) :
               conn.refresh_token = gvt[c].refresh_token

ActiveRows(u, p) ==
    {k \in 1..Len(rows) :
        rows[k].user_id = u /\ rows[k].provider = p /\ rows[k].is_active}

\* C4: at most one row with is_active = true exists for each
\* (user, provider), whatever connections have been put.
C4_AtMostOneActive ==
    \A u \in Users, p \in Providers : Cardinality(ActiveRows(u, p)) <= 1

RECURSIVE LeadsOfSteps(_, _)
LeadsOfSteps(results, n) ==
    IF n = 0 THEN 0
    ELSE LeadsOfSteps(results, n - 1)
         + (IF results[n].leads_processed > 0 THEN results[n].leads_processed ELSE 0)

ListDone == req.pc = "done" /\ req.info.shape = "list"
TheResponse == CHOOSE x \in req.response : TRUE
Failed(k) == ~req.results[k].success
Elements(q) == {q[n] : n \in 1..Len(q)}

\* C5: the aggregate of a multi-task request succeeds exactly when every
\* step succeeded, counts the leads of all steps (a step without a count
\* adds 0) and, when a step failed, lists the errors of every failed step.
C5_Aggregate ==
    ListDone =>
        /\ TheResponse.success = (\A k \in 1..Len(req.results) : ~Failed(k))
        /\ TheResponse.leads_processed = LeadsOfSteps(req.results, Len(req.results))
        /\ (\E k \in 1..Len(req.results) : Failed(k)) =>
              /\ TheResponse.errors # None
              /\ \A k \in 1..Len(req.results) :
                    Failed(k) =>
                        /\ req.results[k].errors # None
                        /\ Elements(OrElse(req.results[k].errors, <<>>)) # {}
                        /\ Elements(OrElse(req.results[k].errors, <<>>))
                              \subseteq Elements(OrElse(TheResponse.errors, <<>>))

C5_Witness ==
    /\ ListDone
    /\ Len(req.results) = 2
    /\ Failed(1)
    /\ ~Failed(2)
    /\ req.results[2].leads_processed > 0
    /\ TheResponse.success = FALSE
    /\ TheResponse.leads_processed = req.results[2].leads_processed
    /\ TheResponse.errors = req.results[1].errors

SendWithoutGmail(k) ==
    /\ req.info.task[k] = "personalize"
    /\ req.info.send_emails
    /\ "gmail" \notin req.creds

\* C6: a personalize step with send_emails and no Gmail credential fails
\* with a missing-credential error, and no agent run (hence no Gmail call)
\* is made for that step.
C6_SendNeedsGmail ==
    /\ \A k \in 1..Len(req.results) :
          SendWithoutGmail(k) =>
              /\ Failed(k)
              /\ req.results[k].errors = Some(<<"No Gmail credentials">>)
    /\ \A n \in 1..Len(req.agent_log) :
          req.agent_log[n].step > 0 => ~SendWithoutGmail(req.agent_log[n].step)
    /\ \A n \in 1..Len(req.agent_log) :
          req.agent_log[n].gmail_send => "gmail" \in req.creds

C6_Witness ==
    /\ req.pc = "done"
    /\ req.info.shape = "single"
    /\ SendWithoutGmail(1)
    /\ TheResponse.success = FALSE
    /\ TheResponse.errors = Some(<<"No Gmail credentials">>)
    /\ Len(req.agent_log) = 1

IsDigit(ch) == ch \in {"0", "1", "2", "3", "4", "5", "6", "7", "8", "9"}
DigitValue(ch) ==
    CASE ch = "0" -> 0 [] ch = "1" -> 1 [] ch = "2" -> 2 [] ch = "3" -> 3
      [] ch = "4" -> 4 [] ch = "5" -> 5 [] ch = "6" -> 6 [] ch = "7" -> 7
      [] ch = "8" -> 8 [] ch = "9" -> 9
IsNumber(str) == str # <<>> /\ \A n \in 1..Len(str) : IsDigit(str[n])
RECURSIVE NumberOf(_)
NumberOf(str) ==
    IF str = <<>> THEN 0
    ELSE 10 * NumberOf(SubSeq(str, 1, Len(str) - 1)) + DigitValue(str[Len(str)])
IsRange(str) ==
    \E n \in 1..Len(str) :
        /\ str[n] = "-"
        /\ IsNumber(SubSeq(str, 1, n - 1))
        /\ IsNumber(SubSeq(str, n + 1, Len(str)))
RangeLow(str) ==
    NumberOf(SubSeq(str, 1, (CHOOSE n \in 1..Len(str) : str[n] = "-") - 1))
RangeHigh(str) ==
    NumberOf(SubSeq(str, (CHOOSE n \in 1..Len(str) : str[n] = "-") + 1, Len(str)))
\* the company size, a head count or a range, lies within the ICP range
SizeWithin(size, range) ==
    /\ IsRange(range)
    /\ \/ /\ IsNumber(size)
          /\ RangeLow(range) <= NumberOf(size)
          /\ NumberOf(size) <= RangeHigh(range)
       \/ /\ IsRange(size)
          /\ RangeLow(range) <= RangeLow(size)
          /\ RangeHigh(size) <= RangeHigh(range)

FullMatch(l, p) ==
    /\ l.industry # <<>>
    /\ \E n \in 1..Len(p.target_industries) : p.target_industries[n] = l.industry
    /\ SizeWithin(l.company_size, p.company_size_range)
    /\ \E n \in 1..Len(p.use_cases) : Contains(p.use_cases[n], l.background)
    /\ \E n \in 1..Len(p.pain_points) : Contains(p.pain_points[n], l.background)

\* C7: a lead whose industry equals a target industry, whose company size
\* lies within the ICP range and whose background contains a listed use
\* case and a listed pain point is scored 10 and rated Hot.
C7_FullMatchScoresTen ==
    \A r \in scoring :
        FullMatch(lead, icp) => r.numerical_score = 10 /\ r.score = "Hot"

\* C8: as long as no session call has hit the error branch, a user for whom
\* a call has returned owns exactly one session, and every call made for
\* that user has returned that session's id.
C8_OneSessionReused ==
    ~error_log =>
        \A k \in SessionCallers :
            goc[k].pc = "done" => sessions[goc[k].user_id] = <<goc[k].returned>>

C8_Witness ==
    /\ ~error_log
    /\ goc["k1"].pc = "done"
    /\ goc["k2"].pc = "done"
    /\ goc["k1"].user_id = goc["k2"].user_id
    /\ goc["k1"].returned = goc["k2"].returned
    /\ goc["k1"].returned > 0
    /\ Len(sessions[goc["k1"].user_id]) = 1

\* the handler a step result comes from, read off its data and message
ResultKind(r) ==
    IF r.success
    THEN CASE r.data = "prospecting" -> "prospecting"
           [] r.data = "enrichment" -> "enrichment"
           [] r.data = "qualification" -> "qualify"
           [] r.data = "personalization" -> "personalize"
           [] OTHER -> "none"
    ELSE CASE r.message \in {<<"Prospecting failed">>,
                             <<"Airtable connection required for prospecting. Please connect your Airtable account.">>}
                -> "prospecting"
           [] r.message = <<"Airtable connection required for enrichment.">>
                -> "enrichment"
           [] r.message = <<"Airtable connection required for qualification.">>
                -> "qualify"
           [] r.message \in {<<"Airtable connection required for personalization.">>,
                             <<"Gmail connection required for sending emails.">>}
                -> "personalize"
           [] r.message = <<"Unknown task type">> -> "other"
           [] OTHER -> "none"

\* C9: the steps of a multi-task request run one at a time in list order,
\* each exactly once: step i is under way only when steps 1..i-1 have
\* returned, result k is the result of task k, the agent runs follow the
\* list order, and at the end every step has a result, failed or not.
C9_StepsInOrder ==
    req.info.shape = "list" =>
        /\ req.pc \in {"dispatch", "awaiting"} =>
              /\ req.i \in 1..Len(req.info.task)
              /\ Len(req.results) = req.i - 1
        /\ req.pc = "done" => Len(req.results) = Len(req.info.task)
        /\ \A k \in 1..Len(req.results) :
              ResultKind(req.results[k]) = req.info.task[k]
        /\ \A n \in 2..Len(req.agent_log) :
              /\ req.agent_log[n].step > req.agent_log[n - 1].step
              /\ req.agent_log[n].purpose = req.info.task[req.agent_log[n].step]
              /\ IF req.pc = "awaiting" /\ n = Len(req.agent_log)
                 THEN req.agent_log[n].step = req.i
                 ELSE req.agent_log[n].step <= Len(req.results)

C9_Witness ==
    /\ ListDone
    /\ Len(req.info.task) = 2
    /\ Len(req.results) = 2
    /\ Failed(1)
    /\ \E n \in 1..Len(req.agent_log) : req.agent_log[n].step = 2

\* C10: get_valid_token calls whose refreshes were in flight together for
\* one (user, provider) all return the same outcome.
C10_OverlappingCallersAgree ==
    \A c, d \in Callers :
        Returned(c) /\ Returned(d) /\ d \in gvt[c].overlap
            => gvt[c].result = gvt[d].result

\* C11: a refresh never writes its carried-forward copy of the refresh
\* token over a different refresh token that another refresh has stored in
\* the meantime: whenever a refresh writes the refresh token it was called
\* with, the rows of its (user, provider) held that refresh token before.
C11_NoStaleCarryForward ==
    [][\A c \in Callers :
          (/\ gvt[c].pc = "posting"
           /\ gvt'[c].pc = "closing"
           /\ rows' # rows)
          => \A k \in 1..Len(rows) :
                 (/\ rows[k].user_id = gvt[c].user_id
                  /\ rows[k].provider = gvt[c].provider
                  /\ rows'[k].refresh_token = gvt[c].refresh_token)
                 => rows[k].refresh_token = gvt[c].refresh_token]_vars

\* the stored expiry of an access token has been reached
Expired(token) ==
    \E k \in 1..Len(rows) :
        rows[k].access_token = token /\ now >= rows[k].token_expires_at

\* C12: whenever a handler hands its prompt to the agent, the access tokens
\* written into the prompt (Airtable's, and Gmail's when emails are sent)
\* are not expired at that moment.
C12_StepTokenNotExpired ==
    [][(req.pc = "dispatch" /\ req'.pc = "awaiting")
       => /\ ~Expired(guc.credentials["airtable"])
          /\ Last(req'.agent_log).gmail_send => ~Expired(guc.credentials["gmail"])]_vars

PleaseConnect ==
    <<"Please connect your Gmail and Airtable accounts to use the sales automation agent.">>

\* C13: a store that cannot be read is not reported as "not connected":
\* process_request answers with the connect-your-accounts response only
\* when the user has no active connection with an unexpired token.
C13_ConnectOnlyWhenNotConnected ==
    (req.pc = "done" /\ TheResponse.message = PleaseConnect)
    => \A p \in Providers :
           \A conn \in get_oauth_connection(rows, RequestUser, p) :
               now >= conn.token_expires_at

\* C16: each block of get_user_credentials ends without raising, enters
\* the provider into the map exactly when get_valid_token returned a token,
\* with that token, and leaves the other provider's entry as it was.
C16_CredentialsFollowTokens ==
    [][(guc.pc \in Providers /\ guc'.pc # guc.pc)
       => /\ guc'.pc # "raised"
          /\ guc'.credentials[guc.pc] = gvt[CredentialsCaller].result
          /\ \A q \in Providers \ {guc.pc} :
                 guc'.credentials[q] = guc.credentials[q]]_vars

\* C14: a get_valid_token call whose read of the store is answered: with no
\* active connection it returns None without a refresh; with an active
\* connection whose expiry is after now it returns the stored access token
\* without a refresh; with now >= expiry it sends the refresh POST with the
\* stored refresh token; in each case the store is left as it was.
C14_ValidTokenNoRefresh ==
    [][\A c \in Callers, u \in Users, p \in Providers :
          get_valid_token(c, u, p, TRUE)
          => /\ rows' = rows
             /\ ActiveRows(u, p) = {}
                => /\ gvt'[c].pc = "done"
                   /\ gvt'[c].result = NoToken
                   /\ ~gvt'[c].refreshed
             /\ ActiveRows(u, p) # {}
                => \E k \in ActiveRows(u, p) :
                       \/ /\ now < rows[k].token_expires_at
                          /\ gvt'[c].pc = "done"
                          /\ gvt'[c].result = rows[k].access_token
                          /\ ~gvt'[c].refreshed
                       \/ /\ now >= rows[k].token_expires_at
                          /\ gvt'[c].pc = "posting"
                          /\ gvt'[c].refresh_token = rows[k].refresh_token]_vars

\* one call has returned a stored, unexpired token without a refresh while
\* another has sent a refresh for a connection with now = expiry
C14_Witness ==
    \E c, d \in Callers :
        /\ Returned(c) /\ ~gvt[c].refreshed /\ gvt[c].result # NoToken
        /\ \E k \in ActiveRows(gvt[c].user_id, gvt[c].provider) :
               rows[k].access_token = gvt[c].result /\ now < rows[k].token_expires_at
        /\ gvt[d].pc = "posting"
        /\ \E k \in ActiveRows(gvt[d].user_id, gvt[d].provider) :
               rows[k].refresh_token = gvt[d].refresh_token
               /\ now = rows[k].token_expires_at

\* C15: a refresh that succeeds on the answer resp leaves, in the rows of
\* its (user, provider), the access token of resp, the refresh token of resp
\* or, when resp has none, the refresh token the call read from the store,
\* and the expiry now + expires_in of resp (DefaultExpiresIn when resp has
\* none); get_valid_token then returns that access token.
C15_SuccessfulRefreshStores ==
    [][\A c \in Callers :
          /\ (/\ gvt[c].pc = "posting"
              /\ gvt'[c].pc = "closing"
              /\ gvt'[c].result # NoToken)
             => \A resp \in Responses, ok \in BOOLEAN :
                    refresh_token_response(c, resp, ok)
                    => /\ gvt'[c].result = resp.access_token
                       /\ \A k \in 1..Len(rows) :
                              (rows[k].user_id = gvt[c].user_id
                               /\ rows[k].provider = gvt[c].provider)
                              => /\ rows'[k].access_token = resp.access_token
                                 /\ rows'[k].refresh_token =
                                        (IF resp.refresh_token = Absent
                                         THEN gvt[c].refresh_token
                                         ELSE resp.refresh_token)
                                 /\ rows'[k].token_expires_at =
                                        now + (IF resp.expires_in = Absent
                                               THEN DefaultExpiresIn
                                               ELSE resp.expires_in)
          /\ (gvt[c].pc = "closing" /\ gvt'[c].pc = "done")
             => gvt'[c].result = gvt[c].result]_vars

\* a call has returned the token of a refresh whose answer carried neither
\* refresh_token nor expires_in
C15_Witness ==
    \E c \in Callers :
        /\ Returned(c) /\ gvt[c].refreshed /\ gvt[c].result # NoToken
        /\ \E k \in ActiveRows(gvt[c].user_id, gvt[c].provider) :
               /\ rows[k].access_token = gvt[c].result
               /\ rows[k].refresh_token = gvt[c].refresh_token
               /\ rows[k].token_expires_at >= DefaultExpiresIn

\* C17: whatever /chat hands back is an AgentResponse, and one that
\* reports a failure has success = FALSE and a non-empty errors list.
C17_ChatFaultsStructured ==
    \A out \in chat.outcome :
        /\ out.kind = "AgentResponse"
        /\ \A body \in out.body :
               ~body.success => body.errors \notin {None, Some(<<>>)}

PleaseRephrase ==
    <<"I couldn't understand your request. Please try rephrasing it.">>

\* C18: a request whose parser has run and whose parser output is no task
\* descriptor (nothing usable, or a JSON value that is not an object) is
\* answered with success = FALSE, the please-rephrase message and a
\* non-empty errors list, and no handler has run for it.
C18_ParseFailureRephrase ==
    (/\ req.pc = "done"
     /\ req.agent_log # <<>>
     /\ req.info.shape \in {"none", "nondict"})
    => /\ ~TheResponse.success
       /\ TheResponse.message = PleaseRephrase
       /\ TheResponse.errors \notin {None, Some(<<>>)}
       /\ req.results = <<>>
       /\ \A n \in 1..Len(req.agent_log) : req.agent_log[n].purpose = "parse"

\* the credentials a step of kind task needs
Required(task, send_emails) ==
    {"airtable"} \cup (IF task = "personalize" /\ send_emails THEN {"gmail"} ELSE {})

AgentRan(n) == \E m \in 1..Len(req.agent_log) : req.agent_log[m].step = n

\* C19: in a multi-task dispatch every finished step of a known kind whose
\* required credential is missing has run no agent and is reported with
\* success = FALSE and a message and error naming the missing connection,
\* and every finished step whose required credentials are present has run
\* its agent, whatever the steps before it did.
C19_MissingCredentialStopsOnlyItsStep ==
    req.info.shape = "list"
    => \A n \in 1..Len(req.results) :
           req.info.task[n] \in Kinds
           => IF Required(req.info.task[n], req.info.send_emails) \subseteq req.creds
              THEN AgentRan(n)
              ELSE /\ ~AgentRan(n)
                   /\ ~req.results[n].success
                   /\ req.results[n].message # <<>>
                   /\ req.results[n].errors \in
                          {Some(<<"No Airtable credentials">>),
                           Some(<<"No Gmail credentials">>)}

\* [personalize with send_emails, prospecting] with Airtable only: the first
\* step was refused, the second has run and succeeded
C19_Witness ==
    /\ ListDone
    /\ req.info.task = <<"personalize", "prospecting">>
    /\ req.info.send_emails
    /\ req.creds = {"airtable"}
    /\ Failed(1) /\ ~AgentRan(1)
    /\ AgentRan(2) /\ req.results[2].success

\* C20: the access token, refresh token and expiry of a stored connection
\* change only in the step in which a refresh call stores the answer of a
\* successful provider refresh.
C20_TokensChangeOnlyByRefresh ==
    [][(\E k \in 1..Len(rows) :
           /\ k <= Len(rows')
           /\ <<rows'[k].access_token, rows'[k].refresh_token,
                rows'[k].token_expires_at>>
              # <<rows[k].access_token, rows[k].refresh_token,
                  rows[k].token_expires_at>>)
       => \E c \in Callers :
              /\ gvt[c].pc = "posting"
              /\ gvt'[c].pc = "closing"
              /\ gvt'[c].result # NoToken]_vars

\* C21: when get_user_credentials has returned a map without any provider,
\* process_request answers in that same step with success = FALSE, the
\* connect-your-accounts message and a non-empty errors list; no agent is
\* run (neither the parser nor a handler), no session is looked up or
\* created and no step result exists.
C21_NoCredentialsConnectResponse ==
    [][(/\ guc.pc = "returned"
        /\ \A p \in Providers : guc.credentials[p] = NoToken
        /\ req.pc = "idle"
        /\ req' # req)
       => /\ req'.pc = "done"
          /\ \E r \in req'.response :
                 /\ ~r.success
                 /\ r.message = PleaseConnect
                 /\ r.errors \notin {None, Some(<<>>)}
          /\ req'.agent_log = <<>>
          /\ req'.results = <<>>
          /\ sessions' = sessions]_vars

\* connections are stored, yet no provider yielded a token, and the request
\* has been answered without any agent run
C21_Witness ==
    /\ rows # <<>>
    /\ guc.pc = "returned"
    /\ \A p \in Providers : guc.credentials[p] = NoToken
    /\ req.pc = "done"
    /\ TheResponse.message = PleaseConnect
    /\ req.agent_log = <<>>

\* a refresh POST of the request for provider p
Posting(p) ==
    gvt[CredentialsCaller].pc = "posting" /\ gvt[CredentialsCaller].provider = p
Answered(p) ==
    gvt[CredentialsCaller].pc = "closing" /\ gvt[CredentialsCaller].provider = p

\* C22: within one process_request each provider's token endpoint gets at
\* most one refresh POST: once the POST for a provider has been answered,
\* no POST for that provider is sent again, however it ended.  A provider
\* enters the credential map only in its own block and only with a token
\* get_valid_token returned, so a provider whose refresh or whose token
\* persistence failed stays absent, and the map every step works with is
\* the map get_user_credentials returned.
C22_OneRefreshPerProvider ==
    /\ \A p \in Providers : [](Answered(p) => [](~Posting(p)))
    /\ [][\A p \in Providers :
             guc'.credentials[p] # guc.credentials[p]
             => /\ guc.pc = p
                /\ gvt[CredentialsCaller].pc = "done"
                /\ gvt[CredentialsCaller].result # NoToken
                /\ guc'.credentials[p] = gvt[CredentialsCaller].result]_vars
    /\ [](req.pc \in {"parsing", "dispatch", "awaiting"}
          => /\ guc.pc = "returned"
             /\ req.creds = Connected(guc.credentials))

\* a refresh of the Gmail connection was answered with 200, yet no row took
\* new tokens; the request went on without Gmail and ran a handler's agent
C22_Witness ==
    /\ issued = 1
    /\ \A k \in 1..Len(rows) : rows[k].access_token \in {SignInToken, SignInToken + 1}
    /\ \E k \in 1..Len(rows) :
           rows[k].provider = "gmail" /\ rows[k].is_active
           /\ rows[k].token_expires_at = 0
    /\ guc.pc = "returned"
    /\ guc.credentials["gmail"] = NoToken
    /\ req.pc = "done"
    /\ req.creds = {"airtable"}
    /\ AgentRan(1)

\* C23: a deactivate of (u, p) that the store carries out on at least one
\* row keeps every row, changes nothing but is_active of the rows of
\* (u, p), and leaves them all inactive: get_oauth_connection(u, p) then
\* finds no connection and get_user_oauth_connections(u) lists active
\* connections only, none of p.  A get_valid_token call made for a pair
\* whose rows are all inactive returns None without a refresh.
C23_DeactivateIsSoftDelete ==
    [][\A u \in Users, p \in Providers :
          /\ (update_matches(rows, u, p) /\ deactivate_oauth_connection(u, p, TRUE))
             => /\ Len(rows') = Len(rows)
                /\ \A k \in 1..Len(rows) :
                       IF rows[k].user_id = u /\ rows[k].provider = p
                       THEN rows'[k] = [rows[k] EXCEPT !.is_active = FALSE]
                       ELSE rows'[k] = rows[k]
                /\ get_oauth_connection(rows', u, p) = {}
                /\ \A n \in 1..Len(get_user_oauth_connections(rows', u)) :
                       /\ get_user_oauth_connections(rows', u)[n].is_active
                       /\ get_user_oauth_connections(rows', u)[n].provider # p
          /\ (update_matches(rows, u, p) /\ ActiveRows(u, p) = {})
             => \A c \in Callers :
                    get_valid_token(c, u, p, TRUE)
                    => /\ gvt'[c].pc = "done"
                       /\ gvt'[c].result = NoToken
                       /\ ~gvt'[c].refreshed
                       /\ rows' = rows]_vars

\* a connection whose token has not expired is retained as an inactive row;
\* one call returned its token, another call for the same pair got None
C23_Witness ==
    \E c, d \in Callers, k \in 1..Len(rows) :
        /\ ~rows[k].is_active
        /\ now < rows[k].token_expires_at
        /\ ActiveRows(rows[k].user_id, rows[k].provider) = {}
        /\ Returned(c) /\ gvt[c].result = rows[k].access_token
        /\ Returned(d) /\ gvt[d].result = NoToken /\ ~gvt[d].refreshed
        /\ gvt[c].provider = rows[k].provider
        /\ gvt[d].provider = rows[k].provider

\* the rows of the table that belong to other pairs than (u, p) are the same
\* rows, at the same places, after the step
OthersUnchanged(u, p) ==
    /\ Len(rows') = Len(rows)
    /\ \A k \in 1..Len(rows) :
           ~(rows[k].user_id = u /\ rows[k].provider = p) => rows'[k] = rows[k]

\* C24: the step in which a refresh for (u, p) stores its tokens and a
\* deactivate of (u, p) leave every row of every other (user, provider)
\* as it was, whatever calls of other users or for other providers are
\* under way.
C24_OtherPairsUnchanged ==
    [][/\ \A c \in Callers :
             (gvt[c].pc = "posting" /\ gvt'[c].pc = "closing")
             => OthersUnchanged(gvt[c].user_id, gvt[c].provider)
       /\ \A u \in FrameUsers, p \in Providers, ok \in BOOLEAN :
             deactivate_oauth_connection(u, p, ok) => OthersUnchanged(u, p)]_vars

\* Gmail of u1 has been refreshed while a refresh for Gmail of u2 was in
\* flight, Gmail of u2 has been revoked, and Airtable of u1 and the tokens
\* of u2 are what the sign-ins stored
C24_Witness ==
    /\ rows[1].access_token \in 1..MaxTok
    /\ rows[1].is_active
    /\ rows[2] = [StoredConnection("airtable", SignInToken + 1, 0) EXCEPT !.user_id = "u1"]
    /\ rows[3] = [StoredConnection("gmail", SignInToken + 2, 0)
                     EXCEPT !.user_id = "u2", !.is_active = FALSE]
    /\ \E c \in Callers :
           gvt[c].pc = "posting" /\ gvt[c].user_id = "u2" /\ gvt[c].provider = "gmail"

\* the points a result's reasoning accounts for, by component
IndustryPoints(r) == IF "Industry match" \in Elements(r.reasoning) THEN 3 ELSE 0
SizePoints(r) ==
    IF "Company size match" \in Elements(r.reasoning) THEN 3
    ELSE IF "Partial company size match" \in Elements(r.reasoning) THEN 1 ELSE 0
UseCasePoints(r) == IF "Use case alignment" \in Elements(r.reasoning) THEN 2 ELSE 0
PainPointPoints(r) == IF "Pain point alignment" \in Elements(r.reasoning) THEN 2 ELSE 0

\* C25: for every lead and ICP the numerical score is an integer in 0..10,
\* the sum of an industry component of at most 3, a size component of at
\* most 3, a use-case component of at most 2 and a pain-point component of
\* at most 2, and the rating is Hot exactly for scores of 8 and more, Warm
\* exactly for 5..7 and Cold exactly for 4 and less.
C25_ScoreComposition ==
    \A r \in scoring :
        /\ r.numerical_score \in 0..10
        /\ r.numerical_score =
               IndustryPoints(r) + SizePoints(r) + UseCasePoints(r) + PainPointPoints(r)
        /\ IndustryPoints(r) <= 3 /\ SizePoints(r) <= 3
        /\ UseCasePoints(r) <= 2 /\ PainPointPoints(r) <= 2
        /\ (r.score = "Hot") = (r.numerical_score >= 8)
        /\ (r.score = "Warm") = (r.numerical_score >= 5 /\ r.numerical_score <= 7)
        /\ (r.score = "Cold") = (r.numerical_score <= 4)

\* a lead scored 7 without a size component and rated Warm, one point
\* below Hot
C25_Witness ==
    \E r \in scoring :
        /\ r.numerical_score = 7
        /\ SizePoints(r) = 0
        /\ r.score = "Warm"

\* C26: whatever _get_or_create_session calls have been made, one after
\* the other, with list_sessions answering or failing, no user owns more
\* than one session.
C26_NoSecondSession ==
    \A u \in SessionUsers : Len(sessions[u]) <= 1

\* C27: _get_or_create_session calls that overlap create at most one
\* session for a user, and all calls that have returned for one user
\* have returned the same session id.
C27_ConcurrentCallsOneSession ==
    \A k, j \in SessionCallers :
        (goc[k].pc = "done" /\ goc[j].pc = "done" /\ goc[k].user_id = goc[j].user_id)
        => /\ goc[k].returned = goc[j].returned
           /\ Len(sessions[goc[k].user_id]) <= 1

\* C28: an inactive row keeps its access token, refresh token and expiry
\* in every step, and no get_valid_token call returns a token for a pair
\* whose rows are all inactive.
C28_InactiveRowFrozen ==
    [][/\ \A k \in 1..Len(rows) :
             ~rows[k].is_active
             => /\ rows'[k].access_token = rows[k].access_token
                /\ rows'[k].refresh_token = rows[k].refresh_token
                /\ rows'[k].token_expires_at = rows[k].token_expires_at
       /\ \A c \in Callers :
             (gvt[c].pc # "done" /\ gvt'[c].pc = "done" /\ gvt'[c].result # NoToken)
             => ActiveRows(gvt'[c].user_id, gvt'[c].provider) # {}]_vars

\* C29: a refresh POST answered with 200 and an access token whose
\* update_oauth_tokens raises or matches no row leaves the table as it was
\* and ends without a token; the refresh function returns None and
\* get_valid_token returns None with the table still as it was.
C29_UnsavedRefreshFails ==
    [][\A c \in Callers :
          /\ (gvt[c].pc = "posting" /\ gvt'[c].pc = "closing")
             => \A resp \in Responses, ok \in BOOLEAN :
                    (/\ resp.kind = "ok200"
                     /\ resp.access_token # Absent
                     /\ ~ok \/ ~update_matches(rows, gvt[c].user_id, gvt[c].provider)
                     /\ refresh_token_response(c, resp, ok))
                    => /\ rows' = rows
                       /\ gvt'[c].result = NoToken
          /\ (/\ gvt[c].pc = "closing"
              /\ gvt'[c].pc = "done"
              /\ gvt[c].answer = "ok200"
              /\ gvt[c].result = NoToken)
             => /\ rows' = rows
                /\ gvt'[c].result = NoToken]_vars

\* a call has returned None after a 200 answer with an access token, and
\* the connection still holds the tokens the call read
C29_Witness ==
    \E c \in Callers :
        /\ Returned(c)
        /\ gvt[c].refreshed
        /\ gvt[c].answer = "ok200"
        /\ gvt[c].result = NoToken
        /\ \E conn \in get_oauth_connection(rows, gvt[c].user_id, gvt[c].provider) :
               /\ conn.refresh_token = gvt[c].refresh_token
               /\ conn.access_token = gvt[c].refresh_token
               /\ conn.access_token < issued

\* the steps of the request whose task kind no handler exists for
Unsupported == {n \in 1..Len(req.info.task) : req.info.task[n] \notin Kinds}

\* C30: a finished step whose task kind is none of prospecting, enrichment,
\* qualify and personalize has run no agent and is answered with
\* success = FALSE, the unknown-task message and the error "Unsupported
\* task"; a single-task request is answered with that response, and a
\* multi-task request goes through all its steps, fails as a whole and
\* lists the error once for each such step.
C30_UnsupportedTaskFailsItsStep ==
    /\ \A n \in 1..Len(req.results) :
           n \in Unsupported
           => /\ ~AgentRan(n)
              /\ req.results[n] =
                     AgentResponse(FALSE, <<"Unknown task type">>, "", NoCount,
                                   Some(<<"Unsupported task">>))
    /\ (req.pc = "done" /\ req.info.shape = "single" /\ 1 \in Unsupported)
       => /\ TheResponse = req.results[1]
          /\ \A m \in 1..Len(req.agent_log) : req.agent_log[m].purpose = "parse"
    /\ (ListDone /\ Unsupported # {})
       => /\ Len(req.results) = Len(req.info.task)
          /\ ~TheResponse.success
          /\ TheResponse.message[2] =
                 Cardinality({n \in 1..Len(req.results) : req.results[n].success})
          /\ LET errs == OrElse(TheResponse.errors, <<>>)
             IN Cardinality({m \in 1..Len(errs) : errs[m] = "Unsupported task"})
                = Cardinality(Unsupported)

\* [other, prospecting] with the Airtable credential: the first step was
\* refused without an agent run, the second ran and succeeded, and the
\* request as a whole failed with one of two steps completed
C30_Witness ==
    /\ ListDone
    /\ req.info.task = <<"other", "prospecting">>
    /\ Failed(1) /\ ~AgentRan(1)
    /\ AgentRan(2) /\ req.results[2].success
    /\ ~TheResponse.success
    /\ TheResponse.message[2] = 1
    /\ TheResponse.errors = Some(<<"Unsupported task">>)

====
